---- MODULE Spec2Model ----
(***************************************************************************)
(* Model of src/files.rs: Package::from_root_file and the recursive        *)
(* PackageBuilder::add_module / explore_submodules pair that builds a      *)
(* crate's module tree from the files found on disk.                       *)
(*                                                                         *)
(* The recursion is modelled with an explicit call stack: one frame per    *)
(* running add_module call, holding the position of its explore_submodules *)
(* loop.  The file system is the input: a file's content is chosen the     *)
(* first time the code looks at its path and is fixed from then on, so a   *)
(* second look at the same path sees the same file.                        *)
(***************************************************************************)
EXTENDS Integers, Sequences, FiniteSets, TLC

VARIABLES
    fs,              \* the part of the file system looked at so far: path -> file state
    pc,              \* "start" before from_root_file runs, "run" inside it, "done" after
    next_module_id,  \* PackageBuilder.next_module_id
    files_to_ids,    \* PackageBuilder.files_to_ids : path -> id
    modules,         \* PackageBuilder.modules : id -> Module
    stack,           \* running add_module calls, outermost first
    result,          \* what from_root_file returned
    reads            \* history: the fs::read_to_string calls made, in order

vars == <<fs, pc, next_module_id, files_to_ids, modules, stack, result, reads>>

-----------------------------------------------------------------------------
(* Bounds of the model *)

\* the builder allocates at most this many module identifiers
MaxModules == 5
\* the files of the tree hold at most this many items in all, nested ones counted
MaxNodes == 3

-----------------------------------------------------------------------------
(* Paths.  A path is a sequence of components; a component is the pair     *)
(* <<stem, extension>>, so "a.rs" is <<"a","rs">> and "a" is <<"a","">>.   *)

Comp(stem, ext) == <<stem, ext>>
DotDot == Comp("..", "")
NoName == <<>>

\* Path::file_name: None for the empty path and for one ending in ".."
FileName(path) ==
    IF path = <<>> \/ path[Len(path)] = DotDot THEN NoName ELSE path[Len(path)]

\* PathBuf::pop
Pop(path) == IF path = <<>> THEN path ELSE SubSeq(path, 1, Len(path) - 1)

\* PathBuf::set_extension: no effect without a file name
SetExtension(path, ext) ==
    IF FileName(path) = NoName THEN path
    ELSE [path EXCEPT ![Len(path)] = Comp(path[Len(path)][1], ext)]

\* PathBuf::push of a module name (a relative, extension-less component)
Push(path, ident) == Append(path, Comp(ident, ""))

\* Path::join("mod.rs")
JoinModRs(path) == Append(path, Comp("mod", "rs"))

PushAll(path, idents) ==
    LET RECURSIVE go(_, _)
        go(p, k) == IF k > Len(idents) THEN p ELSE go(Push(p, idents[k]), k + 1)
    IN go(path, 1)

-----------------------------------------------------------------------------
(* Parsed items.  Only module declarations are looked into; every other    *)
(* item is the opaque "other".  The visibility marker is carried through   *)
(* unread by the code and is left out.                                     *)

\* identifiers a module declaration can carry ("mod" is a keyword, never one)
Names == {"a", "b", "c", "lib"}

Other == [kind |-> "other", ident |-> "", items |-> <<>>]
\* `mod x;`  (ItemMod with content = None)
Decl(x) == [kind |-> "decl", ident |-> x, items |-> <<>>]
\* `mod x { body }`  (ItemMod with content = Some(body))
Inline(x, body) == [kind |-> "inline", ident |-> x, items |-> body]

RECURSIVE ItemSeqs(_)
\* items of at most w nodes
ItemsUpTo(w) ==
    {Other} \cup {Decl(x) : x \in Names}
            \cup {Inline(x, body) : x \in Names, body \in ItemSeqs(w - 1)}
\* item sequences of at most w nodes in all
ItemSeqs(w) ==
    IF w = 0 THEN {<<>>}
    ELSE {<<>>} \cup UNION {{<<it>> \o rest : it \in ItemsUpTo(k), rest \in ItemSeqs(w - k)}
                              : k \in 1..w}

\* SeqsUpTo[w]: what a file of at most w items can parse to
SeqsUpTo == [w \in 0..MaxNodes |-> ItemSeqs(w)]

IsMod(item) == item.kind \in {"decl", "inline"}

-----------------------------------------------------------------------------
(* The file system, as fs::read_to_string, syn::parse_file and             *)
(* Path::exists see it.                                                    *)

Absent == [kind |-> "absent", items |-> <<>>]          \* no such file
Unreadable == [kind |-> "unreadable", items |-> <<>>]  \* exists, read fails (a directory, no permission)
BadSyntax == [kind |-> "badsyntax", items |-> <<>>]    \* read succeeds, syn::parse_file fails
Parsed(items) == [kind |-> "parsed", items |-> items]  \* read and parsed

RECURSIVE NodeCount(_)
\* the items in an item sequence, nested ones included
NodeCount(items) ==
    IF items = <<>> THEN 0
    ELSE 1 + NodeCount(Head(items).items) + NodeCount(Tail(items))

\* the items in the files seen so far
Used(f) ==
    LET RECURSIVE sum(_)
        sum(paths) == IF paths = {} THEN 0
                      ELSE LET p == CHOOSE q \in paths : TRUE
                           IN NodeCount(f[p].items) + sum(paths \ {p})
    IN sum(DOMAIN f)

\* what can be found at a path not looked at before: a path without a file
\* name is a directory; a file holds no more items than the tree has left
FileStatesAt(path, room) ==
    IF FileName(path) = NoName THEN {Unreadable}
    ELSE {Absent, Unreadable, BadSyntax} \cup {Parsed(items) : items \in SeqsUpTo[room]}

\* Path::exists
Exists(c) == c.kind # "absent"

\* the file at `path`: the one seen there before, or a file seen now for the
\* first time
Lookup(f, path) ==
    IF path \in DOMAIN f THEN {f[path]} ELSE FileStatesAt(path, MaxNodes - Used(f))
See(f, path, c) == IF path \in DOMAIN f THEN f ELSE (path :> c) @@ f

Dir == Comp("D", "")
\* paths handed to from_root_file
RootPaths == {<<Dir, Comp("lib", "rs")>>, <<Dir, DotDot>>}

-----------------------------------------------------------------------------
(* Results of from_root_file *)

NoPackage == [root_module |-> 0, files_to_ids |-> <<>>, modules |-> <<>>]
NoResult == [kind |-> "none", path |-> <<>>, package |-> NoPackage]
\* Err(Error::Io(path, io_error))
IoError(path) == [kind |-> "io", path |-> path, package |-> NoPackage]
\* Err(Error::Syn(..)), through `?`
SynError == [kind |-> "syn", path |-> <<>>, package |-> NoPackage]
\* Ok(Package { root_module, files_to_ids, modules })
OkPackage(root_id, f2i, mods) ==
    [kind |-> "ok", path |-> <<>>,
     package |-> [root_module |-> root_id, files_to_ids |-> f2i, modules |-> mods]]

\* the error a failed read or parse of `path` is turned into
ErrorOf(path, c) == IF c.kind = "badsyntax" THEN SynError ELSE IoError(path)

\* one fs::read_to_string call: the path read, what was there, and the
\* declaration it was made for: `mod ident;` among the items of a module with
\* the given file and internal_path (the root file is read for none)
ReadOf(path, c, file, internal_path, ident) ==
    [path |-> path, outcome |-> c.kind, file |-> file, internal_path |-> internal_path,
     ident |-> ident]

-----------------------------------------------------------------------------
(* PackageBuilder *)

RootInternalPath == <<"crate">>

\* next_id without its increment
NextIdAfter_Stuck(n) == n
\* next_id: the value next_module_id has after the call
NextIdAfter(n) == n + 1

\* the root's parent read after the root's id was allocated
RootParentArg_AfterAlloc(n) == n + 1
\* the `parent` from_root_file hands to add_module for the root
RootParentArg(n) == n

\* the enclosing module's own parent handed on instead
SubmoduleParent_Grand(frame) == frame.parent
\* the `parent` explore_submodules hands on for a submodule: its own `parent`
\* argument, which add_module set to the enclosing module's id
SubmoduleParent(frame) == frame.id

\* an inline module given attributes
InlineAttributes_Some == "Some"
\* attributes of an inline module
InlineAttributes == "None"

\* the extended path of the enclosing module kept for a module read from its file
DeclInternalPath_Full(internal_path, ident) == internal_path
\* internal_path of a module read from its own file
DeclInternalPath(internal_path, ident) == <<ident>>

\* every segment pushed, the first one too
SkipFirst_None(internal_path) == internal_path
\* internal_path.iter().skip(1)
SkipFirst(internal_path) == Tail(internal_path)

\* last == Some("mod.rs") || last == Some("lib.rs")
IsIndexFile(last) == last = Comp("mod", "rs") \/ last = Comp("lib", "rs")

\* the directory the submodules of the module in file `path` are looked for in
BaseDir(path) == IF IsIndexFile(FileName(path)) THEN Pop(path) ELSE SetExtension(path, "")

\* the path candidate for `mod ident;`, before the mod.rs / .rs choice
Candidate(path, internal_path) == PushAll(BaseDir(path), SkipFirst(internal_path))

\* the id put in front
PushSubmodule_Front(submodules, id) == <<id>> \o submodules
\* submodules.push(id)
PushSubmodule(submodules, id) == Append(submodules, id)

\* HashMap::insert
Insert(map, key, value) == (key :> value) @@ map

Frame(id, parent, path, internal_path, items, attributes) ==
    [id |-> id, parent |-> parent, path |-> path, internal_path |-> internal_path,
     items |-> items, attributes |-> attributes, pos |-> 1, submodules |-> <<>>]

\* add_module up to its call of explore_submodules: allocate the id, register
\* the file of a length-1 path, start the loop over the items.  `stk` are the
\* calls that stay suspended below.
AddModule(stk, parent, path, internal_path, items, attributes) ==
    LET id == next_module_id IN
    /\ next_module_id < MaxModules
    /\ next_module_id' = NextIdAfter(next_module_id)
    /\ files_to_ids' = IF Len(internal_path) = 1 THEN Insert(files_to_ids, path, id)
                       ELSE files_to_ids
    /\ stack' = Append(stk, Frame(id, parent, path, internal_path, items, attributes))
    /\ UNCHANGED <<modules, result>>

Top == stack[Len(stack)]
Below == SubSeq(stack, 1, Len(stack) - 1)
AtItem == pc = "run" /\ stack # <<>> /\ Top.pos <= Len(Top.items)
CurrentItem == Top.items[Top.pos]

\* the loop of explore_submodules moves on to the next item
Advance(frame) == [frame EXCEPT !.pos = @ + 1]

\* the error of a submodule dropped and the loop carried on
Fail_Swallow(err) ==
    IF stack = <<>>
    THEN /\ result' = err
         /\ pc' = "done"
         /\ stack' = <<>>
         /\ UNCHANGED <<next_module_id, files_to_ids, modules>>
    ELSE /\ stack' = Append(Below, Advance(Top))
         /\ UNCHANGED <<pc, result, next_module_id, files_to_ids, modules>>

\* an error leaves from_root_file through every `?` and `return Err`; the
\* builder is dropped with it
Fail(err) ==
    /\ result' = err
    /\ pc' = "done"
    /\ stack' = <<>>
    /\ UNCHANGED <<next_module_id, files_to_ids, modules>>

-----------------------------------------------------------------------------
(* Actions *)

Init ==
    /\ fs = <<>>
    /\ pc = "start"
    /\ next_module_id = 0
    /\ files_to_ids = <<>>
    /\ modules = <<>>
    /\ stack = <<>>
    /\ result = NoResult
    /\ reads = <<>>

\* Package::from_root_file, up to the loop over the root's items
FromRootFile ==
    \E path \in RootPaths : \E c \in Lookup(fs, path) :
        /\ pc = "start"
        /\ fs' = See(fs, path, c)
        /\ reads' = Append(reads, ReadOf(path, c, <<>>, <<>>, ""))
        /\ IF c.kind = "parsed"
           THEN /\ AddModule(<<>>, RootParentArg(next_module_id), path, RootInternalPath,
                             c.items, "Some")
                /\ pc' = "run"
           ELSE Fail(ErrorOf(path, c))

\* `_ => {}`: an item that is no module declaration
SkipItem ==
    /\ AtItem
    /\ ~IsMod(CurrentItem)
    /\ stack' = Append(Below, Advance(Top))
    /\ UNCHANGED <<fs, pc, next_module_id, files_to_ids, modules, result, reads>>

\* `mod ident { items }`
InlineModule ==
    /\ AtItem
    /\ CurrentItem.kind = "inline"
    /\ AddModule(stack, SubmoduleParent(Top), Top.path,
                 Append(Top.internal_path, CurrentItem.ident), CurrentItem.items,
                 InlineAttributes)
    /\ UNCHANGED <<fs, pc, reads>>

\* `mod ident;`
DeclaredModule ==
    /\ AtItem
    /\ CurrentItem.kind = "decl"
    /\ LET ident == CurrentItem.ident
           internal_path == Append(Top.internal_path, ident)
           candidate == Candidate(Top.path, internal_path)
           path_mod_rs == JoinModRs(candidate)
       IN IF FileName(Top.path) = NoName
          THEN \* `continue`
               /\ stack' = Append(Below, Advance(Top))
               /\ UNCHANGED <<fs, pc, next_module_id, files_to_ids, modules, result, reads>>
          ELSE \E m \in Lookup(fs, path_mod_rs) :
               /\ LET path == IF Exists(m) THEN path_mod_rs ELSE SetExtension(candidate, "rs")
                      seen == See(fs, path_mod_rs, m)
                  IN \E c \in Lookup(seen, path) :
                     /\ fs' = See(seen, path, c)
                     /\ reads' = Append(reads, ReadOf(path, c, Top.path, Top.internal_path, ident))
                     /\ IF c.kind = "parsed"
                        THEN /\ AddModule(stack, SubmoduleParent(Top), path,
                                          DeclInternalPath(internal_path, ident), c.items,
                                          "Some")
                             /\ UNCHANGED pc
                        ELSE Fail(ErrorOf(path, c))

\* the end of add_module: the loop is over, the Module is stored and its id
\* returned, to the loop that called (which pushes it and moves on) or, for
\* the root, to from_root_file (which returns the Package)
AddModuleReturn ==
    /\ pc = "run" /\ stack # <<>>
    /\ Top.pos > Len(Top.items)
    /\ LET module == [file |-> Top.path, internal_path |-> Top.internal_path,
                      submodules |-> Top.submodules, parent |-> Top.parent,
                      items |-> Top.items, attributes |-> Top.attributes]
           id == Top.id
       IN /\ modules' = Insert(modules, id, module)
          /\ IF Below = <<>>
             THEN /\ result' = OkPackage(id, files_to_ids, modules')
                  /\ pc' = "done"
                  /\ stack' = <<>>
             ELSE LET caller == Below[Len(Below)]
                      resumed == [Advance(caller) EXCEPT
                                     !.submodules = PushSubmodule(@, id)]
                  IN /\ stack' = Append(SubSeq(Below, 1, Len(Below) - 1), resumed)
                     /\ UNCHANGED <<result, pc>>
    /\ UNCHANGED <<fs, next_module_id, files_to_ids, reads>>

Next == FromRootFile \/ SkipItem \/ InlineModule \/ DeclaredModule \/ AddModuleReturn

Spec == Init /\ [][Next]_vars

-----------------------------------------------------------------------------
(* The returned Package *)

Returned == result.kind = "ok"
Pkg == result.package
Mods == Pkg.modules
Ids == DOMAIN Mods
Root == Pkg.root_module

Last(seq) == seq[Len(seq)]
ModDecls(items) == SelectSeq(items, IsMod)
FileBacked(m) == m.attributes = "Some"

RECURSIVE Subtree(_)
\* a module and everything below it, following `submodules`
Subtree(id) ==
    {id} \cup UNION {Subtree(Mods[id].submodules[k]) : k \in 1..Len(Mods[id].submodules)}

\* the places (p, k) of all `submodules` lists
Places == UNION {{<<p, k>> : k \in 1..Len(Mods[p].submodules)} : p \in Ids}

-----------------------------------------------------------------------------
\* C1: in every returned Package, every module with an internal_path of
\* length 1 is the one files_to_ids registers for its file, and every entry
\* of files_to_ids points to a module with an internal_path of length 1; for
\* every file tree, also one where two declarations resolve to the same file.
C1_FileIndexExact ==
    Returned =>
        /\ \A id \in Ids :
              Len(Mods[id].internal_path) = 1 =>
                  /\ Mods[id].file \in DOMAIN Pkg.files_to_ids
                  /\ Pkg.files_to_ids[Mods[id].file] = id
        /\ \A path \in DOMAIN Pkg.files_to_ids :
              /\ Pkg.files_to_ids[path] \in Ids
              /\ Len(Mods[Pkg.files_to_ids[path]].internal_path) = 1

\* C2: from_root_file terminates: the recursion never resolves a declared-only
\* module to a file that is already being explored higher up the recursion.
\* A call that re-enters a file repeats the call above it (same file, same
\* items, same resolution of every declaration) and so never returns.
C2_NoFileReentered ==
    \A i, j \in 1..Len(stack) :
        (i < j /\ stack[i].attributes = "Some" /\ stack[j].attributes = "Some")
            => stack[i].path # stack[j].path

\* C3: in every returned Package the identifiers are exactly 0..n-1, one per
\* add_module call, assigned in pre-order: the root has 0, a module's id is
\* smaller than every id in its subtree, and an earlier sibling's whole
\* subtree has smaller ids than a later sibling.
C3_PreorderIds ==
    Returned =>
        /\ Ids = 0..(Cardinality(Ids) - 1)
        /\ next_module_id = Cardinality(Ids)
        /\ Root = 0
        /\ \A id \in Ids : \A d \in Subtree(id) \ {id} : id < d
        /\ \A id \in Ids : \A i, j \in 1..Len(Mods[id].submodules) :
              i < j => \A d \in Subtree(Mods[id].submodules[i]) : d < Mods[id].submodules[j]

\* two siblings, the earlier one with a submodule of its own
C3_Witness ==
    /\ Returned
    /\ Len(Mods[Root].submodules) = 2
    /\ Mods[Mods[Root].submodules[1]].submodules # <<>>

\* C4: in every returned Package the root is its own parent and no other
\* module is.
C4_OnlyRootSelfParent ==
    Returned =>
        /\ Mods[Root].parent = Root
        /\ \A id \in Ids \ {Root} : Mods[id].parent # id

C4_Witness == Returned /\ Cardinality(Ids) >= 3

\* C5: construction is fail-fast and all-or-nothing: a file that cannot be
\* read or parsed ends from_root_file at once with the error for that file
\* (an I/O error carrying the path that was attempted) and without a Package;
\* every read before it succeeded and no read follows it.
C5_FailFast ==
    /\ \A i \in 1..Len(reads) :
          reads[i].outcome # "parsed" =>
              /\ i = Len(reads)
              /\ pc = "done"
              /\ result = IF reads[i].outcome = "badsyntax" THEN SynError
                          ELSE IoError(reads[i].path)
    /\ result.kind \in {"io", "syn"} =>
          /\ reads # <<>>
          /\ Last(reads).outcome # "parsed"
          /\ result.package = NoPackage
          /\ stack = <<>>

\* the first of two declared siblings is missing: the second is never read
C5_Witness ==
    /\ result.kind = "io"
    /\ Len(reads) = 2
    /\ fs[reads[1].path].items = <<Decl("a"), Decl("b")>>
    /\ reads[2].ident = "a"
    /\ result.path = reads[2].path

\* C6: in every returned Package a module's `submodules` holds one child per
\* module declaration among its items, inline or declared-only, in textual
\* order; other items contribute nothing and no declaration is skipped.
C6_SubmodulesFollowDeclarations ==
    Returned =>
        \A id \in Ids :
            LET decls == ModDecls(Mods[id].items)
                subs == Mods[id].submodules
            IN /\ Len(subs) = Len(decls)
               /\ \A k \in 1..Len(subs) :
                     /\ subs[k] \in Ids
                     /\ Last(Mods[subs[k]].internal_path) = decls[k].ident
                     /\ decls[k].kind = "inline" => Mods[subs[k]].items = decls[k].items
                     /\ decls[k].kind = "decl" <=> FileBacked(Mods[subs[k]])
               /\ \A i, j \in 1..Len(subs) : i # j => subs[i] # subs[j]

\* an item that is no module between two differently named declarations
C6_Witness ==
    /\ Returned
    /\ \E id \in Ids :
          /\ Len(Mods[id].items) = 3
          /\ Mods[id].items[2] = Other
          /\ Mods[id].items[1].kind = "decl"
          /\ Mods[id].items[3].kind = "inline"
          /\ Mods[id].items[1].ident # Mods[id].items[3].ident

\* the path-inference rule, stated on its own: the directory of an index
\* file or the file without its extension, then every segment of the extended
\* internal path but the first, as directories
RuleCandidate(file, internal_path, ident) ==
    LET n == Len(file)
        name == file[n]
        base == IF name \in {<<"mod", "rs">>, <<"lib", "rs">>}
                THEN SubSeq(file, 1, n - 1)
                ELSE SubSeq(file, 1, n - 1) \o << <<name[1], "">> >>
        extended == internal_path \o <<ident>>
    IN base \o [k \in 1..(Len(extended) - 1) |-> <<extended[k + 1], "">>]
RuleIndexFile(candidate) == candidate \o << <<"mod", "rs">> >>
RuleFlatFile(candidate) ==
    SubSeq(candidate, 1, Len(candidate) - 1) \o << <<candidate[Len(candidate)][1], "rs">> >>

\* C7: the file read for `mod x;` among the items of a module with file F and
\* internal_path P is candidate/mod.rs if that exists and candidate.rs
\* otherwise, where candidate = base / P[2..] / x and base is F's directory
\* when F is named mod.rs or lib.rs and F without its extension otherwise.
C7_PathInference ==
    \A i \in 1..Len(reads) :
        reads[i].ident # "" =>
            LET candidate == RuleCandidate(reads[i].file, reads[i].internal_path,
                                           reads[i].ident)
            IN /\ RuleIndexFile(candidate) \in DOMAIN fs
               /\ reads[i].path = IF fs[RuleIndexFile(candidate)].kind # "absent"
                                  THEN RuleIndexFile(candidate)
                                  ELSE RuleFlatFile(candidate)

\* a declaration inside an inline module of a file that is no index file,
\* resolved to an index file
C7_Witness ==
    \E i \in 1..Len(reads) :
        /\ reads[i].ident # ""
        /\ Len(reads[i].internal_path) = 2
        /\ reads[i].file[Len(reads[i].file)] \notin {<<"mod", "rs">>, <<"lib", "rs">>}
        /\ reads[i].path[Len(reads[i].path)] = <<"mod", "rs">>
        /\ reads[i].outcome = "parsed"

\* C8: in every returned Package a module has attributes iff its
\* internal_path has one segment: the root and every declared-only module
\* have a one-segment path and attributes; every inline module has its
\* enclosing module's path with its name appended, the enclosing module's
\* file, and no attributes.
C8_AttributesIffFileRoot ==
    Returned =>
        /\ Mods[Root].internal_path = <<"crate">>
        /\ \A id \in Ids : Mods[id].attributes = "Some" <=> Len(Mods[id].internal_path) = 1
        /\ \A id \in Ids :
              LET decls == ModDecls(Mods[id].items)
              IN \A k \in 1..Len(decls) :
                    LET child == Mods[Mods[id].submodules[k]]
                    IN IF decls[k].kind = "decl"
                       THEN /\ child.internal_path = <<decls[k].ident>>
                            /\ child.attributes = "Some"
                       ELSE /\ child.internal_path =
                                   Append(Mods[id].internal_path, decls[k].ident)
                            /\ Len(child.internal_path) >= 2
                            /\ child.file = Mods[id].file
                            /\ child.attributes = "None"

\* an inline module inside a declared-only module
C8_Witness ==
    /\ Returned
    /\ \E id \in Ids \ {Root} :
          /\ Mods[id].attributes = "Some"
          /\ \E k \in 1..Len(Mods[id].submodules) :
                Mods[Mods[id].submodules[k]].attributes = "None"

\* the chains root -> `mod a;` -> `mod b;` -> `mod c;` of a returned Package
\* whose root is lib.rs in directory D: the module c of each
ChainEnds ==
    {c \in Ids :
        /\ FileBacked(Mods[c]) /\ Last(Mods[c].internal_path) = "c"
        /\ LET b == Mods[c].parent
           IN /\ FileBacked(Mods[b]) /\ Last(Mods[b].internal_path) = "b"
              /\ LET a == Mods[b].parent
                 IN /\ a # Root
                    /\ FileBacked(Mods[a]) /\ Last(Mods[a].internal_path) = "a"
                    /\ Mods[a].parent = Root
                    /\ Mods[Root].file = <<Dir, <<"lib", "rs">>>>}

NestedFlat == << Dir, <<"a", "">>, <<"b", "">>, <<"c", "rs">> >>
NestedIndex == << Dir, <<"a", "">>, <<"b", "">>, <<"c", "">>, <<"mod", "rs">> >>

\* C9 as stated: for such a chain the file resolved for c is not the
\* conventional nested location D/a/b/c.rs or D/a/b/c/mod.rs.
C9_ChainMisresolved ==
    Returned => \A c \in ChainEnds : Mods[c].file \notin {NestedFlat, NestedIndex}

\* C9 as amended: for such a chain the file resolved for c is the conventional
\* nested location: D/a/b/c/mod.rs if that exists and D/a/b/c.rs otherwise,
\* whether the files of a and b are sibling files or index files.
C9_ChainResolvedNested ==
    Returned =>
        \A c \in ChainEnds :
            /\ NestedIndex \in DOMAIN fs
            /\ Mods[c].file = IF fs[NestedIndex].kind # "absent" THEN NestedIndex
                              ELSE NestedFlat

\* a chain with a in a sibling file and b in an index file
C9_Witness ==
    /\ Returned
    /\ \E c \in ChainEnds :
          /\ Mods[Mods[c].parent].file = << Dir, <<"a", "">>, <<"b", "">>, <<"mod", "rs">> >>
          /\ Mods[Mods[Mods[c].parent].parent].file = << Dir, <<"a", "rs">> >>

\* C10: in every returned Package parent and submodules describe one rooted
\* tree: every listed child is a module whose parent is the listing module,
\* every module but the root is listed exactly once, the root never, and
\* every module is reached from the root.
C10_ParentSubmodulesAgree ==
    Returned =>
        /\ \A pk \in Places :
              /\ Mods[pk[1]].submodules[pk[2]] \in Ids
              /\ Mods[Mods[pk[1]].submodules[pk[2]]].parent = pk[1]
        /\ \A id \in Ids :
              Cardinality({pk \in Places : Mods[pk[1]].submodules[pk[2]] = id})
                  = IF id = Root THEN 0 ELSE 1
        /\ Subtree(Root) = Ids

\* a module two levels below the root, under an inline module
C10_Witness ==
    /\ Returned
    /\ \E id \in Ids :
          /\ Mods[id].parent # Root
          /\ Mods[Mods[id].parent].attributes = "None"
          /\ Mods[id].attributes = "Some"

====
